---- MODULE Spec2Model ----
(***************************************************************************)
(* The subprocess plugin of examples/plugins/treq_plugin_env.py as a state *)
(* machine: one step of the model is one iteration of main()'s read loop   *)
(* (one line of stdin, dispatched to its handler, answered on stdout).     *)
(*                                                                         *)
(* A line of text is modelled by the document it encodes: a JSON value is  *)
(* a tagged record (null, string, integer, array, object), so that the     *)
(* Python operations the handlers apply to it (dict.get, truthiness,       *)
(* subscripting, "in", item assignment, int(), f-strings) can be modelled  *)
(* with the exceptions they raise on ill-shaped values.                    *)
(***************************************************************************)
EXTENDS Integers, Sequences, FiniteSets, TLC

(* ------------------------------------------------------------------ *)
(* Bounds of the model                                                  *)
(* ------------------------------------------------------------------ *)

\* Number of stdin lines the read loop consumes before end of input.
MaxLines == 2

\* Largest number of milliseconds the wall clock advances during a run.
MaxClockAdvance == 2

\* random.randint ranges wider than this are sampled (both ends, one inside).
MaxRandSpan == 2

(* ------------------------------------------------------------------ *)
(* JSON values (the result of json.loads, the argument of json.dumps)  *)
(* ------------------------------------------------------------------ *)

Null == [t |-> "null"]
Str(s) == [t |-> "str", s |-> s]
Num(n) == [t |-> "num", n |-> n]
\* A number with a fraction, whole + tenths / 10 (a Python float), not negative.
Real(whole, tenths) == [t |-> "real", whole |-> whole, tenths |-> tenths]
Arr(a) == [t |-> "arr", a |-> a]
Obj(o) == [t |-> "obj", o |-> o]

\* The empty dict literal {} and the empty list literal [].
EmptyDict == Obj(<<>>)
EmptyList == Arr(<<>>)

IsDict(v) == v.t = "obj"
IsStr(v) == v.t = "str"

\* Python truthiness ("if x", "not x") of a decoded JSON value.
Truthy(v) ==
  CASE v.t = "null" -> FALSE
    [] v.t = "str" -> v.s # ""
    [] v.t = "num" -> v.n # 0
    [] v.t = "real" -> v.whole # 0 \/ v.tenths # 0
    [] v.t = "arr" -> v.a # <<>>
    [] v.t = "obj" -> DOMAIN v.o # {}

\* type(v).__name__, as Python's exception messages print it.
TypeName(v) ==
  CASE v.t = "null" -> "NoneType"
    [] v.t = "str" -> "str"
    [] v.t = "num" -> "int"
    [] v.t = "real" -> "float"
    [] v.t = "arr" -> "list"
    [] v.t = "obj" -> "dict"

\* f"{v}" for a string, an integer or None, the values InputLines makes the
\* plugin format into names and messages.
PyStr(v) ==
  CASE v.t = "str" -> v.s
    [] v.t = "num" -> ToString(v.n)
    [] v.t = "null" -> "None"

\* d.get(key, default) on a dict d (the caller has checked IsDict(d)).
DictGet(d, key, default) == IF key \in DOMAIN d.o THEN d.o[key] ELSE default

\* d[key] = value on a dict d.
DictSet(d, key, value) ==
  Obj([k \in DOMAIN d.o \cup {key} |-> IF k = key THEN value ELSE d.o[k]])

\* AttributeError message of v.get(...) on a value that is not a dict.
NoGetAttr(v) == "'" \o TypeName(v) \o "' object has no attribute 'get'"

(* ------------------------------------------------------------------ *)
(* Outcome of a handler call: it returns a result or raises             *)
(* ------------------------------------------------------------------ *)

\* The handler returned `result`; cfg is the module-level config afterwards,
\* now the last wall-clock reading, log the log_debug messages it wrote.
Returned(result, cfg, now, log) ==
  [raised |-> FALSE, err |-> "", result |-> result, config |-> cfg,
   now |-> now, log |-> log]

\* The handler raised an Exception whose str() is err.
Raised(err, cfg, now, log) ==
  [raised |-> TRUE, err |-> err, result |-> Null, config |-> cfg,
   now |-> now, log |-> log]

\* log_debug(message): one line on stderr.
log_debug(message) == "[treq-plugin-env] " \o message

(* ------------------------------------------------------------------ *)
(* handle_init                                                          *)
(* ------------------------------------------------------------------ *)

\* DefaultConfig with a prefix that is not empty.
DefaultConfig_Prefixed == "prefix" :> Str("TREQ_")

\* config at import time.
DefaultConfig == "prefix" :> Str("")

\* DictUpdate with the slip `config = other`: the dict is replaced, not merged.
DictUpdate_Replace(cfg, other) == other

\* dict.update(other) with other a dict: other's keys win, the rest is kept.
DictUpdate(cfg, other) ==
  [k \in DOMAIN cfg \cup DOMAIN other |->
     IF k \in DOMAIN other THEN other[k] ELSE cfg[k]]

\* dict.update(seq) with seq a list: each element must be a [key, value] pair;
\* the pairs before the first ill-shaped element are already stored when the
\* exception is raised.  Returns [raised, err, config].
RECURSIVE UpdateFromPairs(_, _, _)
UpdateFromPairs(cfg, seq, i) ==
  IF i > Len(seq) THEN [raised |-> FALSE, err |-> "", config |-> cfg]
  ELSE LET e == seq[i] IN
    CASE e.t = "arr" /\ Len(e.a) = 2 /\ IsStr(e.a[1]) ->
           UpdateFromPairs(DictUpdate(cfg, e.a[1].s :> e.a[2]), seq, i + 1)
      [] e.t = "arr" /\ Len(e.a) # 2 ->
           [raised |-> TRUE, config |-> cfg,
            err |-> "dictionary update sequence element #" \o ToString(i - 1)
                    \o " has length " \o ToString(Len(e.a)) \o "; 2 is required"]
      [] e.t \in {"num", "null"} ->
           [raised |-> TRUE, config |-> cfg,
            err |-> "cannot convert dictionary update sequence element #"
                    \o ToString(i - 1) \o " to a sequence"]

\* config.update(c) for a truthy c.  Returns [raised, err, config].
ConfigUpdate(cfg, c) ==
  CASE c.t = "obj" -> [raised |-> FALSE, err |-> "", config |-> DictUpdate(cfg, c.o)]
    [] c.t = "arr" -> UpdateFromPairs(cfg, c.a, 1)
    [] c.t = "str" ->
         \* iterating a string yields its characters, each of length 1
         [raised |-> TRUE, config |-> cfg,
          err |-> "dictionary update sequence element #0 has length 1; 2 is required"]
    [] c.t = "num" ->
         [raised |-> TRUE, config |-> cfg, err |-> "'int' object is not iterable"]

\* The descriptor handle_init returns.
PluginDescriptor ==
  Obj("name" :> Str("treq-plugin-env")
   @@ "version" :> Str("1.0.0")
   @@ "protocolVersion" :> Num(1)
   @@ "capabilities" :> Arr(<<Str("resolvers"), Str("hooks")>>)
   @@ "resolvers" :> Arr(<<Str("$env"), Str("$timestamp"), Str("$uuid"),
                           Str("$randomInt")>>)
   @@ "hooks" :> Arr(<<Str("request.before")>>)
   @@ "permissions" :> Arr(<<Str("env")>>))

\* handle_init with the slip of merging the request's config into the
\* descriptor it returns.
handle_init_ConfigInDescriptor(msg, cfg, now) ==
  LET c == DictGet(msg, "config", Null)
      upd == IF Truthy(c) THEN ConfigUpdate(cfg, c)
             ELSE [raised |-> FALSE, err |-> "", config |-> cfg]
  IN IF upd.raised
       THEN Raised(upd.err, upd.config, now, <<>>)
       ELSE Returned(Obj(DictUpdate(PluginDescriptor.o, upd.config)), upd.config, now,
                     <<log_debug("Initialized with config")>>)

handle_init(msg, cfg, now) ==
  LET c == DictGet(msg, "config", Null)
      upd == IF Truthy(c) THEN ConfigUpdate(cfg, c)
             ELSE [raised |-> FALSE, err |-> "", config |-> cfg]
  IN IF upd.raised
       THEN Raised(upd.err, upd.config, now, <<>>)
       ELSE Returned(PluginDescriptor, upd.config, now,
                     <<log_debug("Initialized with config")>>)

(* ------------------------------------------------------------------ *)
(* handle_resolver                                                      *)
(* ------------------------------------------------------------------ *)

\* os.environ of the plugin process: fixed while it runs.
Environ == "API_KEY" :> "plain-key" @@ "TREQ_API_KEY" :> "treq-key"
           @@ "TREQ_7" :> "seven" @@ "EMPTY" :> ""

\* The wall clock (milliseconds since the epoch) when the process starts:
\* two milliseconds before a whole second.
StartMs == 2 * 1000 - 2

\* The readings datetime.now() can give after a reading of `now`.
ClockReadings(now) == now .. (StartMs + MaxClockAdvance)

\* The values uuid.uuid4() / uuid.uuid1() can return.
UUIDs == {"uuid-a", "uuid-b"}

\* max_val of $randomInt when the request gives no second argument.
DefaultRandomMax == 1000000

\* The integers int() is asked to parse in this model.
IntLiterals == -9 .. 9

\* args[0] of a list, a dict, a number or None (InputLines holds no request
\* whose args is a string).  Returns [raised, err, value].
Subscript0(v) ==
  CASE v.t = "arr" ->
         IF v.a = <<>>
           THEN [raised |-> TRUE, err |-> "list index out of range", value |-> Null]
           ELSE [raised |-> FALSE, err |-> "", value |-> v.a[1]]
    [] v.t = "obj" ->
         \* the keys of a decoded object are strings: KeyError(0)
         [raised |-> TRUE, err |-> "0", value |-> Null]
    [] v.t \in {"num", "null"} ->
         [raised |-> TRUE, value |-> Null,
          err |-> "'" \o TypeName(v) \o "' object is not subscriptable"]

\* args[1] of a list with at least two elements.
Subscript1(v) == v.a[2]

\* len(args).  Returns [raised, err, value].
PyLen(v) ==
  CASE v.t = "arr" -> [raised |-> FALSE, err |-> "", value |-> Len(v.a)]
    [] v.t = "obj" -> [raised |-> FALSE, err |-> "", value |-> Cardinality(DOMAIN v.o)]
    [] v.t \in {"num", "null"} ->
         [raised |-> TRUE, value |-> 0,
          err |-> "object of type '" \o TypeName(v) \o "' has no len()"]

\* int(v).  Returns [raised, err, value].
PyInt(v) ==
  CASE v.t = "num" -> [raised |-> FALSE, err |-> "", value |-> v.n]
    [] v.t = "real" ->
         \* int() of a float truncates towards zero
         [raised |-> FALSE, err |-> "", value |-> v.whole]
    [] v.t = "str" ->
         IF \E n \in IntLiterals : ToString(n) = v.s
           THEN [raised |-> FALSE, err |-> "",
                 value |-> CHOOSE n \in IntLiterals : ToString(n) = v.s]
           ELSE [raised |-> TRUE, value |-> 0,
                 err |-> "invalid literal for int() with base 10: '" \o v.s \o "'"]
    [] v.t \in {"null", "arr", "obj"} ->
         [raised |-> TRUE, value |-> 0,
          err |-> "int() argument must be a string, a bytes-like object or a "
                  \o "real number, not '" \o TypeName(v) \o "'"]

\* The values random.randint(lo, hi) can return, for lo <= hi.
RandChoices(lo, hi) ==
  IF hi - lo <= MaxRandSpan THEN lo .. hi ELSE {lo, lo + 1, hi}

\* {"value": s}
ValueResult(s) == Obj("value" :> Str(s))

\* now.isoformat(): a text that names the instant.
IsoFormat(ms) == "iso:" \o ToString(ms)

\* now.strftime(fmt) for a format without % directives: the format itself.
Strftime(fmt, ms) == fmt

\* name == "$env"
resolve_env(args, cfg, now) ==
  IF ~Truthy(args) THEN {Returned(ValueResult(""), cfg, now, <<>>)}
  ELSE LET a0 == Subscript0(args) IN
    IF a0.raised THEN {Raised(a0.err, cfg, now, <<>>)}
    ELSE LET var_name == a0.value
             prefix == IF "prefix" \in DOMAIN cfg THEN cfg["prefix"] ELSE Str("")
             full_name == IF Truthy(prefix)
                            THEN Str(PyStr(prefix) \o PyStr(var_name))
                            ELSE var_name
         IN IF ~IsStr(full_name)
              THEN {Raised("str expected, not " \o TypeName(full_name), cfg, now, <<>>)}
              ELSE LET value == IF full_name.s \in DOMAIN Environ
                                  THEN Environ[full_name.s] ELSE ""
                   IN {Returned(ValueResult(value), cfg, now,
                         <<log_debug("$env(" \o PyStr(var_name) \o ") -> "
                             \o full_name.s \o " = "
                             \o (IF value # "" THEN "***" ELSE "(empty)"))>>)}

\* resolve_timestamp with unix_ms computed as int(now.timestamp()) * 1000.
resolve_timestamp_WholeSeconds(args, cfg, now) ==
  LET a0 == IF Truthy(args) THEN Subscript0(args)
            ELSE [raised |-> FALSE, err |-> "", value |-> Str("iso")]
  IN IF a0.raised THEN {Raised(a0.err, cfg, now, <<>>)}
     ELSE LET fmt == a0.value IN
       UNION {
         IF IsStr(fmt)
           THEN LET value == CASE fmt = Str("iso") -> IsoFormat(t)
                               [] fmt = Str("unix") -> ToString(t \div 1000)
                               [] fmt = Str("unix_ms") -> ToString((t \div 1000) * 1000)
                               [] OTHER -> Strftime(fmt.s, t)
                IN {Returned(ValueResult(value), cfg, t,
                      <<log_debug("$timestamp(" \o fmt.s \o ") -> " \o value)>>)}
           ELSE {Raised("strftime() argument 1 must be str, not " \o TypeName(fmt),
                        cfg, t, <<>>)}
         : t \in ClockReadings(now) }

\* name == "$timestamp"
resolve_timestamp(args, cfg, now) ==
  LET a0 == IF Truthy(args) THEN Subscript0(args)
            ELSE [raised |-> FALSE, err |-> "", value |-> Str("iso")]
  IN IF a0.raised THEN {Raised(a0.err, cfg, now, <<>>)}
     ELSE LET fmt == a0.value IN
       UNION {
         IF IsStr(fmt)
           THEN LET value == CASE fmt = Str("iso") -> IsoFormat(t)
                               [] fmt = Str("unix") -> ToString(t \div 1000)
                               [] fmt = Str("unix_ms") -> ToString(t)
                               [] OTHER -> Strftime(fmt.s, t)
                IN {Returned(ValueResult(value), cfg, t,
                      <<log_debug("$timestamp(" \o fmt.s \o ") -> " \o value)>>)}
           ELSE {Raised("strftime() argument 1 must be str, not " \o TypeName(fmt),
                        cfg, t, <<>>)}
         : t \in ClockReadings(now) }

\* name == "$uuid"
resolve_uuid(args, cfg, now) ==
  LET a0 == IF Truthy(args) THEN Subscript0(args)
            ELSE [raised |-> FALSE, err |-> "", value |-> Str("4")]
  IN IF a0.raised THEN {Raised(a0.err, cfg, now, <<>>)}
     ELSE \* uuid4 for "4" and for anything unknown, uuid1 for "1"
          { Returned(ValueResult(u), cfg, now,
              <<log_debug("$uuid(" \o PyStr(a0.value) \o ") -> " \o u)>>)
            : u \in UUIDs }

\* name == "$randomInt"
resolve_randomInt(args, cfg, now) ==
  LET n == PyLen(args) IN
  IF n.raised THEN {Raised(n.err, cfg, now, <<>>)}
  ELSE LET a0 == IF n.value > 0 THEN Subscript0(args)
                 ELSE [raised |-> FALSE, err |-> "", value |-> Num(0)]
  IN IF a0.raised THEN {Raised(a0.err, cfg, now, <<>>)}
  ELSE LET min_val == PyInt(a0.value) IN
  IF min_val.raised THEN {Raised(min_val.err, cfg, now, <<>>)}
  ELSE LET max_val == IF n.value > 1 THEN PyInt(Subscript1(args))
                      ELSE [raised |-> FALSE, err |-> "", value |-> DefaultRandomMax]
  IN IF max_val.raised THEN {Raised(max_val.err, cfg, now, <<>>)}
  ELSE LET lo == min_val.value
           hi == max_val.value
  IN IF lo > hi
       THEN \* random.randrange(lo, hi + 1) of an empty range (message of CPython 3.11)
            {Raised("empty range for randrange() (" \o ToString(lo) \o ", "
                    \o ToString(hi + 1) \o ", " \o ToString(hi + 1 - lo) \o ")",
                    cfg, now, <<>>)}
       ELSE { Returned(ValueResult(ToString(r)), cfg, now,
                <<log_debug("$randomInt(" \o ToString(lo) \o ", " \o ToString(hi)
                    \o ") -> " \o ToString(r))>>)
              : r \in RandChoices(lo, hi) }

\* handle_resolver with a final else that raises instead of returning "".
handle_resolver_UnknownRaises(msg, cfg, now) ==
  LET name == DictGet(msg, "name", Str(""))
      args == DictGet(msg, "args", EmptyList)
  IN CASE name = Str("$env") -> resolve_env(args, cfg, now)
       [] name = Str("$timestamp") -> resolve_timestamp(args, cfg, now)
       [] name = Str("$uuid") -> resolve_uuid(args, cfg, now)
       [] name = Str("$randomInt") -> resolve_randomInt(args, cfg, now)
       [] OTHER -> {Raised("Unknown resolver: " \o PyStr(name), cfg, now, <<>>)}

\* The set of outcomes of handle_resolver(msg): one per value the clock, the
\* uuid generator and the random generator can give.
handle_resolver(msg, cfg, now) ==
  LET name == DictGet(msg, "name", Str(""))
      args == DictGet(msg, "args", EmptyList)
  IN CASE name = Str("$env") -> resolve_env(args, cfg, now)
       [] name = Str("$timestamp") -> resolve_timestamp(args, cfg, now)
       [] name = Str("$uuid") -> resolve_uuid(args, cfg, now)
       [] name = Str("$randomInt") -> resolve_randomInt(args, cfg, now)
       [] OTHER -> {Returned(ValueResult(""), cfg, now,
                      <<log_debug("Unknown resolver: " \o PyStr(name))>>)}

(* ------------------------------------------------------------------ *)
(* handle_hook                                                          *)
(* ------------------------------------------------------------------ *)

\* The value handle_hook writes into X-Plugin.
PluginHeader == "treq-plugin-env/1.0.0"

\* {"output": output_data}
OutputResult(output_data) == Obj("output" :> output_data)

\* request_before that sets X-Correlation-ID without testing for it.
request_before_AlwaysNewId(output_data, cfg, now) ==
  LET request == DictGet(output_data, "request", EmptyDict) IN
  IF ~IsDict(request) THEN {Raised(NoGetAttr(request), cfg, now, <<>>)}
  ELSE LET headers == DictGet(request, "headers", EmptyDict) IN
    CASE headers.t \in {"num", "null"} ->
           {Raised("argument of type '" \o TypeName(headers) \o "' is not iterable",
                   cfg, now, <<>>)}
      [] headers.t = "arr" ->
           {Raised("list indices must be integers or slices, not str", cfg, now, <<>>)}
      [] headers.t = "str" ->
           {Raised("'str' object does not support item assignment", cfg, now, <<>>)}
      [] headers.t = "obj" ->
           LET Done(h1) ==
                 LET h2 == DictSet(h1, "X-Plugin", Str(PluginHeader))
                     request2 == DictSet(request, "headers", h2)
                     output2 == DictSet(output_data, "request", request2)
                 IN Returned(OutputResult(output2), cfg, now,
                      <<log_debug("request.before: added correlation ID")>>)
           IN {Done(DictSet(headers, "X-Correlation-ID", Str(u))) : u \in UUIDs}

\* The body of `if hook_name == "request.before":` on a dict output_data.
\* Returns the set of outcomes, one per uuid4() the generator can give.
request_before(output_data, cfg, now) ==
  LET request == DictGet(output_data, "request", EmptyDict) IN
  IF ~IsDict(request) THEN {Raised(NoGetAttr(request), cfg, now, <<>>)}
  ELSE LET headers == DictGet(request, "headers", EmptyDict) IN
    CASE headers.t \in {"num", "null"} ->
           \* "X-Correlation-ID" not in headers
           {Raised("argument of type '" \o TypeName(headers) \o "' is not iterable",
                   cfg, now, <<>>)}
      [] headers.t = "arr" ->
           \* headers["X-Correlation-ID"] = ... or headers["X-Plugin"] = ...
           {Raised("list indices must be integers or slices, not str", cfg, now, <<>>)}
      [] headers.t = "str" ->
           {Raised("'str' object does not support item assignment", cfg, now, <<>>)}
      [] headers.t = "obj" ->
           LET Done(h1) ==
                 LET h2 == DictSet(h1, "X-Plugin", Str(PluginHeader))
                     request2 == DictSet(request, "headers", h2)
                     output2 == DictSet(output_data, "request", request2)
                 IN Returned(OutputResult(output2), cfg, now,
                      <<log_debug("request.before: added correlation ID")>>)
           IN IF "X-Correlation-ID" \notin DOMAIN headers.o
                THEN {Done(DictSet(headers, "X-Correlation-ID", Str(u))) : u \in UUIDs}
                ELSE {Done(headers)}

\* handle_hook that runs the request.before branch for every hook name.
handle_hook_EveryName(msg, cfg, now) ==
  LET output_data == DictGet(msg, "output", EmptyDict)
  IN IF ~IsDict(output_data)
       THEN {Raised(NoGetAttr(output_data), cfg, now, <<>>)}
       ELSE request_before(output_data, cfg, now)

\* The set of outcomes of handle_hook(msg).
handle_hook(msg, cfg, now) ==
  LET hook_name == DictGet(msg, "name", Str(""))
      output_data == DictGet(msg, "output", EmptyDict)
  IN IF hook_name = Str("request.before")
       THEN IF ~IsDict(output_data)
              THEN {Raised(NoGetAttr(output_data), cfg, now, <<>>)}
              ELSE request_before(output_data, cfg, now)
       ELSE {Returned(OutputResult(output_data), cfg, now, <<>>)}

(* ------------------------------------------------------------------ *)
(* handle_event                                                         *)
(* ------------------------------------------------------------------ *)

\* handle_event(msg): returns None, or raises on an event that is no dict.
handle_event(msg, cfg, now) ==
  LET event == DictGet(msg, "event", EmptyDict) IN
  IF ~IsDict(event) THEN Raised(NoGetAttr(event), cfg, now, <<>>)
  ELSE LET event_type == DictGet(event, "type", Str(""))
           method == PyStr(DictGet(event, "method", Null))
           url == PyStr(DictGet(event, "url", Null))
       IN Returned(Null, cfg, now,
            CASE event_type = Str("fetchStarted") ->
                   <<log_debug("Event: " \o method \o " " \o url)>>
              [] event_type = Str("fetchFinished") ->
                   <<log_debug("Event: " \o method \o " " \o url \o " -> "
                       \o PyStr(DictGet(event, "status", Null)))>>
              [] event_type = Str("error") ->
                   <<log_debug("Event: Error - "
                       \o PyStr(DictGet(event, "message", Null)))>>
              [] OTHER -> <<>>)

(* ------------------------------------------------------------------ *)
(* Lines of text on stdin and stdout                                    *)
(* ------------------------------------------------------------------ *)

\* A line that is empty after strip().
BlankLine == [kind |-> "blank", doc |-> Null]
\* A line json.loads rejects with JSONDecodeError.
NotJson == [kind |-> "notjson", doc |-> Null]
\* The line that encodes the JSON value v.
Json(v) == [kind |-> "json", doc |-> v]

\* json.loads(line): the decoded value, or JSONDecodeError.  (A line on which
\* json.loads fails with another exception, RecursionError on nesting deeper
\* than the interpreter's recursion limit or ValueError on an integer literal
\* beyond its digit limit, is not among InputLines; line 202 does not catch
\* those, and they end main() like the AttributeError of NotAnObject.)
json_loads(line) == [raised |-> line.kind # "json", value |-> line.doc]

\* json.dumps(response): the line print() writes.
json_dumps(v) == Json(v)

\* A request or notification with the given fields.
Msg(fields) == Json(Obj(fields))

InitLines ==
  { Msg("type" :> Str("init") @@ "id" :> Str("i1")),
    Msg("type" :> Str("init")),
    Msg("type" :> Str("init") @@ "id" :> Str("i2") @@ "config" :> EmptyDict),
    Msg("type" :> Str("init") @@ "id" :> Str("i3")
        @@ "config" :> Obj("prefix" :> Str("TREQ_"))),
    Msg("type" :> Str("init") @@ "id" :> Str("i4")
        @@ "config" :> Obj("region" :> Str("eu"))),
    Msg("type" :> Str("init") @@ "id" :> Str("i5") @@ "config" :> Str("abc")),
    Msg("type" :> Str("init") @@ "id" :> Str("i6")
        @@ "config" :> Arr(<<Arr(<<Str("prefix"), Str("P_")>>), Num(7)>>)) }

ResolverLine(id, name, args) ==
  Msg("type" :> Str("resolver") @@ "id" :> Str(id) @@ "name" :> Str(name)
      @@ "args" :> args)

ResolverLines ==
  { ResolverLine("r1", "$env", Arr(<<Str("API_KEY")>>)),
    ResolverLine("r2", "$env", EmptyList),
    ResolverLine("r3", "$env", Arr(<<Str("MISSING")>>)),
    ResolverLine("r4", "$env", Arr(<<Num(7)>>)),
    ResolverLine("r5", "$env", Num(7)),
    Msg("type" :> Str("resolver") @@ "id" :> Str("r6") @@ "name" :> Str("$env")),
    ResolverLine("t1", "$timestamp", Arr(<<Str("unix_ms")>>)),
    ResolverLine("t2", "$timestamp", Arr(<<Str("unix")>>)),
    ResolverLine("t3", "$timestamp", EmptyList),
    ResolverLine("t4", "$timestamp", Arr(<<Str("now")>>)),
    ResolverLine("t5", "$timestamp", Arr(<<Num(7)>>)),
    ResolverLine("u1", "$uuid", EmptyList),
    ResolverLine("u2", "$uuid", Arr(<<Str("1")>>)),
    ResolverLine("n1", "$randomInt", Arr(<<Str("1"), Str("3")>>)),
    ResolverLine("n2", "$randomInt", EmptyList),
    ResolverLine("n3", "$randomInt", Arr(<<Str("3"), Str("1")>>)),
    ResolverLine("n4", "$randomInt", Arr(<<Str("x")>>)),
    ResolverLine("n5", "$randomInt", Arr(<<Num(2), Num(2)>>)),
    ResolverLine("n6", "$randomInt", Null),
    ResolverLine("n7", "$randomInt", Arr(<<Real(1, 5), Real(1, 7)>>)),
    ResolverLine("x1", "$other", Arr(<<Str("a")>>)),
    Msg("type" :> Str("resolver") @@ "id" :> Str("x2")) }

HookLine(id, name, output) ==
  Msg("type" :> Str("hook") @@ "id" :> Str(id) @@ "name" :> Str(name)
      @@ "input" :> EmptyDict @@ "output" :> output)

\* {"request": {"url": "/x", "headers": headers}}
RequestWith(headers) ==
  Obj("request" :> Obj("url" :> Str("/x") @@ "headers" :> headers))

HookLines ==
  { HookLine("h1", "request.before", RequestWith(EmptyDict)),
    HookLine("h2", "request.before", RequestWith(Obj("Accept" :> Str("*/*")))),
    HookLine("h3", "request.before", RequestWith(Obj("X-Plugin" :> Str("other")))),
    HookLine("h4", "request.before",
             RequestWith(Obj("X-Correlation-ID" :> Str("cid-0")
                             @@ "Accept" :> Str("*/*")))),
    HookLine("h5", "request.before", Obj("request" :> EmptyDict)),
    HookLine("h6", "request.before", Str("text")),
    HookLine("h7", "request.before", RequestWith(Arr(<<Str("Accept")>>))),
    HookLine("h8", "request.before", Obj("request" :> Null)),
    Msg("type" :> Str("hook") @@ "id" :> Str("h9") @@ "name" :> Str("request.before")),
    HookLine("g1", "request.after", RequestWith(Obj("Accept" :> Str("*/*")))),
    HookLine("g2", "response.after", Str("text")),
    Msg("type" :> Str("hook") @@ "id" :> Str("g3") @@ "name" :> Str("request.after")) }

EventLines ==
  { Msg("type" :> Str("event")
        @@ "event" :> Obj("type" :> Str("fetchStarted") @@ "method" :> Str("GET")
                          @@ "url" :> Str("/x"))),
    Msg("type" :> Str("event") @@ "event" :> Obj("type" :> Str("custom"))),
    Msg("type" :> Str("event")),
    Msg("type" :> Str("event") @@ "event" :> Str("boom")),
    Msg("type" :> Str("event") @@ "id" :> Str("e1") @@ "event" :> Null) }

OtherLines ==
  { BlankLine, NotJson,
    Json(Num(42)), Json(Arr(<<Str("init")>>)), Json(Null),
    Msg(<<>>),
    Msg("id" :> Str("k1")),
    Msg("type" :> Str("ping")),
    Msg("type" :> Str("ping") @@ "id" :> Str("k2")),
    Msg("type" :> Num(7) @@ "id" :> Num(7)),
    Msg("type" :> Str("shutdown")),
    Msg("type" :> Str("shutdown") @@ "id" :> Str("s1")) }

\* The lines the host may write to the plugin's stdin.
InputLines == InitLines \cup ResolverLines \cup HookLines \cup EventLines \cup OtherLines

\* The host chains hooks: the output one hook call returned is the output of
\* the next hook request.  out_lines is what the plugin has printed so far;
\* the line is the request.before call on the output of its last response.
ChainedHookLines(out_lines) ==
  IF out_lines = <<>> THEN {}
  ELSE LET last == out_lines[Len(out_lines)].doc IN
    IF /\ last.o["type"] = Str("response")
       /\ IsDict(last.o["result"])
       /\ "output" \in DOMAIN last.o["result"].o
      THEN {HookLine("hc", "request.before", last.o["result"].o["output"])}
      ELSE {}

(* ------------------------------------------------------------------ *)
(* main: the read loop                                                  *)
(* ------------------------------------------------------------------ *)

VARIABLES
  lines,    \* the lines the for loop has taken from sys.stdin, in order
  stdout,   \* the lines printed on sys.stdout, in order
  stderr,   \* the lines printed on sys.stderr, in order
  config,   \* the module-level config dict
  clock,    \* the last reading of the wall clock, in milliseconds
  pc        \* "running" (in the loop), "exited" (main returned), "crashed"

vars == <<lines, stdout, stderr, config, clock, pc>>

Init ==
  /\ lines = <<>>
  /\ stdout = <<>>
  /\ stderr = <<log_debug("Plugin starting...")>>
  /\ config = DefaultConfig
  /\ clock = StartMs
  /\ pc = "running"

\* msg_type = msg.get("type", ""), msg_id = msg.get("id", "")
msg_type(msg) == DictGet(msg, "type", Str(""))
msg_id(msg) == DictGet(msg, "id", Str(""))

\* {"id": msg_id, "type": "response", "result": result}
Response(id, result) ==
  Obj("id" :> id @@ "type" :> Str("response") @@ "result" :> result)

\* {"id": msg_id, "type": "error", "error": {"message": message}}
ErrorResponse(id, message) ==
  Obj("id" :> id @@ "type" :> Str("error")
      @@ "error" :> Obj("message" :> Str(message)))

\* RequestOutput with an except clause that only logs.
RequestOutput_SilentError(id, out) ==
  IF out.raised THEN <<>>
  ELSE <<json_dumps(Response(id, out.result))>>

\* What the try block prints for a request whose handler ended with `out`:
\* the response (line 238), or the error of the except clause (line 247).
RequestOutput(id, out) ==
  IF out.raised THEN <<json_dumps(ErrorResponse(id, out.err))>>
  ELSE <<json_dumps(Response(id, out.result))>>

\* What the try block prints for an event whose handler ended with `out`:
\* nothing after `continue`, the error of the except clause after a raise.
EventOutput(id, out) ==
  IF out.raised THEN <<json_dumps(ErrorResponse(id, out.err))>>
  ELSE <<>>

\* What the else branch prints for a message of an unknown type.
UnknownTypeOutput(msg) ==
  <<json_dumps(ErrorResponse(msg_id(msg),
                 "Unknown message type: " \o PyStr(msg_type(msg))))>>

\* What log_debug writes for a handler that ended with `out`.
HandlerLog(out) ==
  IF out.raised THEN out.log \o <<log_debug("Error handling message: " \o out.err)>>
  ELSE out.log

\* `for line in sys.stdin` yields the next line.
ReadLine(line) ==
  /\ pc = "running"
  /\ Len(lines) < MaxLines
  /\ lines' = Append(lines, line)

\* AfterShutdown with `continue` in place of `break`.
AfterShutdown_Continue == "running"

\* Where main is after the shutdown branch: `break` leaves the loop.
AfterShutdown == "exited"

\* line.strip() is empty: continue.
SkipBlank ==
  \E line \in InputLines :
    /\ ReadLine(line)
    /\ line.kind = "blank"
    /\ UNCHANGED <<stdout, stderr, config, clock, pc>>

\* ParseError without the except clause: JSONDecodeError ends main().
ParseError_Fatal ==
  \E line \in InputLines :
    /\ ReadLine(line)
    /\ line.kind # "blank"
    /\ json_loads(line).raised
    /\ pc' = "crashed"
    /\ stderr' = Append(stderr, "json.decoder.JSONDecodeError")
    /\ UNCHANGED <<stdout, config, clock>>

\* json.loads raises JSONDecodeError: log and continue.
ParseError ==
  \E line \in InputLines :
    /\ ReadLine(line)
    /\ line.kind # "blank"
    /\ json_loads(line).raised
    /\ stderr' = Append(stderr, log_debug("JSON parse error"))
    /\ UNCHANGED <<stdout, config, clock, pc>>

\* The decoded value is no dict: msg.get at line 206 raises AttributeError
\* outside the try block, and the exception ends main().
NotAnObject ==
  \E line \in InputLines :
    /\ ReadLine(line)
    /\ line.kind # "blank"
    /\ ~json_loads(line).raised
    /\ ~IsDict(json_loads(line).value)
    /\ pc' = "crashed"
    /\ stderr' = Append(stderr, "AttributeError: " \o NoGetAttr(json_loads(line).value))
    /\ UNCHANGED <<stdout, config, clock>>

\* The line is not blank and decodes to a dict.
Decoded(line) ==
  /\ line.kind # "blank"
  /\ ~json_loads(line).raised
  /\ IsDict(json_loads(line).value)

\* Answer without the try/except: an exception of the handler ends main().
Answer_Unhandled(msg, out) ==
  /\ stdout' = IF out.raised THEN stdout
               ELSE stdout \o RequestOutput(msg_id(msg), out)
  /\ stderr' = stderr \o out.log
  /\ config' = out.config
  /\ clock' = out.now
  /\ pc' = IF out.raised THEN "crashed" ELSE pc

\* Answer with the output put in front of what stdout already holds.
Answer_Prepend(msg, out) ==
  /\ stdout' = RequestOutput(msg_id(msg), out) \o stdout
  /\ stderr' = stderr \o HandlerLog(out)
  /\ config' = out.config
  /\ clock' = out.now
  /\ UNCHANGED pc

\* Answer with a log_debug that prints without file=sys.stderr: the log
\* lines, which are not JSON, land on stdout before the answer.
Answer_LogToStdout(msg, out) ==
  /\ stdout' = stdout \o [i \in 1 .. Len(HandlerLog(out)) |-> NotJson]
                      \o RequestOutput(msg_id(msg), out)
  /\ stderr' = stderr
  /\ config' = out.config
  /\ clock' = out.now
  /\ UNCHANGED pc

\* The tail of an iteration that called a handler for a request.
Answer(msg, out) ==
  /\ stdout' = stdout \o RequestOutput(msg_id(msg), out)
  /\ stderr' = stderr \o HandlerLog(out)
  /\ config' = out.config
  /\ clock' = out.now
  /\ UNCHANGED pc

OnInit ==
  \E line \in InputLines :
    /\ ReadLine(line)
    /\ Decoded(line)
    /\ LET msg == json_loads(line).value IN
         /\ msg_type(msg) = Str("init")
         /\ Answer(msg, handle_init(msg, config, clock))

OnResolver ==
  \E line \in InputLines :
    /\ ReadLine(line)
    /\ Decoded(line)
    /\ LET msg == json_loads(line).value IN
         /\ msg_type(msg) = Str("resolver")
         /\ \E out \in handle_resolver(msg, config, clock) : Answer(msg, out)

OnHook ==
  \E line \in InputLines \cup ChainedHookLines(stdout) :
    /\ ReadLine(line)
    /\ Decoded(line)
    /\ LET msg == json_loads(line).value IN
         /\ msg_type(msg) = Str("hook")
         /\ \E out \in handle_hook(msg, config, clock) : Answer(msg, out)

OnEvent ==
  \E line \in InputLines :
    /\ ReadLine(line)
    /\ Decoded(line)
    /\ LET msg == json_loads(line).value
           out == handle_event(msg, config, clock)
       IN /\ msg_type(msg) = Str("event")
          /\ stdout' = stdout \o EventOutput(msg_id(msg), out)
          /\ stderr' = stderr \o HandlerLog(out)
          /\ UNCHANGED <<config, clock, pc>>

\* type "shutdown": break, then the log line after the loop.
OnShutdown ==
  \E line \in InputLines :
    /\ ReadLine(line)
    /\ Decoded(line)
    /\ LET msg == json_loads(line).value IN
         /\ msg_type(msg) = Str("shutdown")
         /\ pc' = AfterShutdown
         /\ stderr' = stderr \o <<log_debug("Shutdown received, exiting..."),
                                  log_debug("Plugin exiting")>>
         /\ UNCHANGED <<stdout, config, clock>>

\* Any other type: the else branch builds an error response, which is printed.
OnUnknownType ==
  \E line \in InputLines :
    /\ ReadLine(line)
    /\ Decoded(line)
    /\ LET msg == json_loads(line).value IN
         /\ msg_type(msg) \notin {Str("init"), Str("resolver"), Str("hook"),
                                  Str("event"), Str("shutdown")}
         /\ stdout' = stdout \o UnknownTypeOutput(msg)
         /\ UNCHANGED <<stderr, config, clock, pc>>

\* sys.stdin is at end of input: the loop ends and main returns.
EndOfInput ==
  /\ pc = "running"
  /\ pc' = "exited"
  /\ stderr' = Append(stderr, log_debug("Plugin exiting"))
  /\ UNCHANGED <<lines, stdout, config, clock>>

Next ==
  \/ SkipBlank
  \/ ParseError
  \/ NotAnObject
  \/ OnInit
  \/ OnResolver
  \/ OnHook
  \/ OnEvent
  \/ OnShutdown
  \/ OnUnknownType
  \/ EndOfInput

Spec == Init /\ [][Next]_vars

(* ------------------------------------------------------------------ *)
(* Vocabulary of the properties                                         *)
(* ------------------------------------------------------------------ *)

\* This step took a line from stdin; Cur is that line.
Took == Len(lines') = Len(lines) + 1
Cur == lines'[Len(lines')]

\* This step only appended to stdout; Written is what it appended.
Kept == Len(stdout') >= Len(stdout) /\ SubSeq(stdout', 1, Len(stdout)) = stdout
Written == SubSeq(stdout', Len(stdout) + 1, Len(stdout'))

\* The line encodes an object whose "type" field is the string ty.
HasType(line, ty) ==
  /\ line.kind = "json"
  /\ line.doc.t = "obj"
  /\ "type" \in DOMAIN line.doc.o
  /\ line.doc.o["type"] = Str(ty)

\* A request: a message the host expects one answer to.
IsRequestLine(line) == \E ty \in {"init", "resolver", "hook"} : HasType(line, ty)

\* A message of one of the five types the plugin dispatches on.
Recognized(line) ==
  \E ty \in {"init", "resolver", "hook", "event", "shutdown"} : HasType(line, ty)

HasId(line) == "id" \in DOMAIN line.doc.o

\* The stdout line is a protocol message of the given type.
IsMessageOfType(out, ty) ==
  /\ out.kind = "json"
  /\ out.doc.t = "obj"
  /\ {"id", "type"} \subseteq DOMAIN out.doc.o
  /\ out.doc.o["type"] = Str(ty)

\* The stdout line is a response or an error that carries the request's id.
AnswersTo(out, line) ==
  /\ IsMessageOfType(out, "response") \/ IsMessageOfType(out, "error")
  /\ HasId(line) => out.doc.o["id"] = line.doc.o["id"]

\* Some line read so far is a shutdown message.
ShutdownRead == \E i \in 1 .. Len(lines) : HasType(lines[i], "shutdown")

\* The messages of the exceptions the handler of this request can raise.
HandlerErrors(line) ==
  LET msg == line.doc
      outs == CASE HasType(line, "init") -> {handle_init(msg, config, clock)}
                [] HasType(line, "resolver") -> handle_resolver(msg, config, clock)
                [] HasType(line, "hook") -> handle_hook(msg, config, clock)
                [] OTHER -> {}
  IN {out.err : out \in {o \in outs : o.raised}}

(* ------------------------------------------------------------------ *)
(* C1                                                                   *)
(* ------------------------------------------------------------------ *)

\* C1: every request (type init, resolver or hook) the loop reads makes the
\* plugin write exactly one line to stdout, a response or an error that
\* carries the request's id.
C1_ExactlyOneAnswer ==
  [][ (Took /\ IsRequestLine(Cur)) =>
        /\ Kept
        /\ Len(Written) = 1
        /\ AnswersTo(Written[1], Cur) ]_vars

\* Two requests were read, the first answered by an error and the second by
\* a response, each under its own id.
C1_Witness ==
  /\ Len(lines) = 2 /\ Len(stdout) = 2
  /\ IsRequestLine(lines[1]) /\ HasId(lines[1])
  /\ IsRequestLine(lines[2]) /\ HasId(lines[2])
  /\ lines[1].doc.o["id"] # lines[2].doc.o["id"]
  /\ IsMessageOfType(stdout[1], "error") /\ AnswersTo(stdout[1], lines[1])
  /\ IsMessageOfType(stdout[2], "response") /\ AnswersTo(stdout[2], lines[2])

(* ------------------------------------------------------------------ *)
(* C2                                                                   *)
(* ------------------------------------------------------------------ *)

\* C2: a line that is not JSON produces no output on stdout and leaves the
\* loop running, and a request read right after it gets its own answer.
C2_MalformedThenValid ==
  [][ /\ (Took /\ Cur = NotJson) => (stdout' = stdout /\ pc' = "running")
      /\ (/\ Took /\ lines # <<>> /\ lines[Len(lines)] = NotJson
          /\ IsRequestLine(Cur))
           => (Kept /\ Len(Written) = 1 /\ AnswersTo(Written[1], Cur)) ]_vars

\* A malformed line, then a request with an id: stdout holds the one answer.
C2_Witness ==
  /\ Len(lines) = 2 /\ lines[1] = NotJson
  /\ IsRequestLine(lines[2]) /\ HasId(lines[2])
  /\ Len(stdout) = 1
  /\ IsMessageOfType(stdout[1], "response") /\ AnswersTo(stdout[1], lines[2])

(* ------------------------------------------------------------------ *)
(* C3                                                                   *)
(* ------------------------------------------------------------------ *)

\* C3: no line other than a shutdown message ends the read loop: after a line
\* that is not JSON, or that is JSON (an object or not) without a recognized
\* type, the plugin is still running.
C3_LoopSurvivesAnyLine ==
  [][ (Took /\ Cur.kind # "blank" /\ ~Recognized(Cur)) => pc' = "running" ]_vars

(* ------------------------------------------------------------------ *)
(* C4                                                                   *)
(* ------------------------------------------------------------------ *)

\* C4: a message of type event, whatever its event field, makes the plugin
\* write nothing to stdout.
C4_EventsAreSilent ==
  [][ (Took /\ HasType(Cur, "event")) => stdout' = stdout ]_vars

(* ------------------------------------------------------------------ *)
(* C5                                                                   *)
(* ------------------------------------------------------------------ *)

\* C5: when the handler of a request raises, the plugin writes one error
\* message with the request's id and the exception's message, and the loop
\* keeps running.
C5_HandlerExceptionAnswered ==
  [][ (Took /\ IsRequestLine(Cur) /\ HandlerErrors(Cur) # {}) =>
        /\ Kept
        /\ Len(Written) = 1
        /\ IsMessageOfType(Written[1], "error")
        /\ Written[1].doc.o["id"] = (IF HasId(Cur) THEN Cur.doc.o["id"] ELSE Str(""))
        /\ \E e \in HandlerErrors(Cur) :
             Written[1].doc.o["error"] = Obj("message" :> Str(e))
        /\ pc' = "running" ]_vars

\* A request whose handler raised was answered by an error, and the request
\* read after it was answered by a response.
C5_Witness ==
  /\ Len(lines) = 2 /\ Len(stdout) = 2
  /\ HasType(lines[1], "resolver") /\ HasType(lines[2], "hook")
  /\ IsMessageOfType(stdout[1], "error")
  /\ stdout[1].doc.o["error"] =
       Obj("message" :> Str("invalid literal for int() with base 10: 'x'"))
  /\ IsMessageOfType(stdout[2], "response")
  /\ pc = "running"

(* ------------------------------------------------------------------ *)
(* C6                                                                   *)
(* ------------------------------------------------------------------ *)

\* C6: a message of an unknown type is answered by one error echoing its id
\* when it has an id, and produces no output on stdout when it has none.
C6_UnknownTypeErrorOrDrop ==
  [][ (Took /\ Cur.kind = "json" /\ IsDict(Cur.doc) /\ ~Recognized(Cur)) =>
        IF HasId(Cur)
          THEN /\ Kept
               /\ Len(Written) = 1
               /\ IsMessageOfType(Written[1], "error")
               /\ Written[1].doc.o["id"] = Cur.doc.o["id"]
          ELSE stdout' = stdout ]_vars

(* ------------------------------------------------------------------ *)
(* C7                                                                   *)
(* ------------------------------------------------------------------ *)

\* C7: the step that reads a shutdown message writes nothing and ends the
\* loop, and once a shutdown message has been read no line is taken from
\* stdin and nothing is written to stdout.
C7_SilentAfterShutdown ==
  [][ /\ ShutdownRead' => (stdout' = stdout /\ pc' = "exited")
      /\ ShutdownRead => lines' = lines ]_vars

\* A request was answered, then shutdown was read: main has returned and
\* stdout holds the one answer.
C7_Witness ==
  /\ Len(lines) = 2
  /\ IsRequestLine(lines[1]) /\ HasType(lines[2], "shutdown")
  /\ Len(stdout) = 1 /\ AnswersTo(stdout[1], lines[1])
  /\ pc = "exited"

(* ------------------------------------------------------------------ *)
(* C8                                                                   *)
(* ------------------------------------------------------------------ *)

\* The line is a request.before hook whose output holds a request with a
\* dict of headers.
IsBeforeHookWithHeaders(line) ==
  /\ HasType(line, "hook")
  /\ "name" \in DOMAIN line.doc.o /\ line.doc.o["name"] = Str("request.before")
  /\ "output" \in DOMAIN line.doc.o /\ IsDict(line.doc.o["output"])
  /\ "request" \in DOMAIN line.doc.o["output"].o
  /\ IsDict(line.doc.o["output"].o["request"])
  /\ "headers" \in DOMAIN line.doc.o["output"].o["request"].o
  /\ IsDict(line.doc.o["output"].o["request"].o["headers"])

\* The headers of the request inside a hook request or a hook response.
HeadersIn(line) == line.doc.o["output"].o["request"].o["headers"].o
HeadersOut(out) == out.doc.o["result"].o["output"].o["request"].o["headers"].o

\* C8: the response to a request.before hook has the headers X-Correlation-ID
\* and X-Plugin, and every header of the request, whatever its name, with the
\* value it had.
C8_AllHeadersPreserved ==
  [][ (Took /\ IsBeforeHookWithHeaders(Cur)) =>
        /\ Kept
        /\ Len(Written) = 1
        /\ IsMessageOfType(Written[1], "response")
        /\ {"X-Correlation-ID", "X-Plugin"} \subseteq DOMAIN HeadersOut(Written[1])
        /\ \A h \in DOMAIN HeadersIn(Cur) :
             /\ h \in DOMAIN HeadersOut(Written[1])
             /\ HeadersOut(Written[1])[h] = HeadersIn(Cur)[h] ]_vars

(* ------------------------------------------------------------------ *)
(* C9                                                                   *)
(* ------------------------------------------------------------------ *)

\* The descriptor the claim names.
ClaimedDescriptor ==
  Obj([name |-> Str("treq-plugin-env"),
       version |-> Str("1.0.0"),
       protocolVersion |-> Num(1),
       capabilities |-> Arr(<<Str("resolvers"), Str("hooks")>>),
       resolvers |-> Arr(<<Str("$env"), Str("$timestamp"), Str("$uuid"),
                           Str("$randomInt")>>),
       hooks |-> Arr(<<Str("request.before")>>),
       permissions |-> Arr(<<Str("env")>>)])

\* C9: every response to an init message, whatever its config and whatever
\* was received before, carries the same descriptor: name, version,
\* protocolVersion 1, capabilities {resolvers, hooks}, the four resolvers,
\* the hook request.before and the permission env.
C9_DescriptorFixed ==
  [][ (/\ Took /\ HasType(Cur, "init") /\ Kept /\ Len(Written) = 1
       /\ IsMessageOfType(Written[1], "response"))
        => Written[1].doc.o["result"] = ClaimedDescriptor ]_vars

\* Two init messages with different configs were answered, both with the
\* descriptor.
C9_Witness ==
  /\ Len(lines) = 2 /\ Len(stdout) = 2
  /\ HasType(lines[1], "init") /\ HasType(lines[2], "init")
  /\ "config" \in DOMAIN lines[1].doc.o /\ "config" \in DOMAIN lines[2].doc.o
  /\ lines[1].doc.o["config"] # lines[2].doc.o["config"]
  /\ Truthy(lines[1].doc.o["config"]) /\ Truthy(lines[2].doc.o["config"])
  /\ \A i \in 1 .. 2 :
       /\ IsMessageOfType(stdout[i], "response")
       /\ stdout[i].doc.o["result"] = ClaimedDescriptor

(* ------------------------------------------------------------------ *)
(* C10                                                                  *)
(* ------------------------------------------------------------------ *)

\* The config field of an init message, None when it is absent.
ConfigOf(line) ==
  IF "config" \in DOMAIN line.doc.o THEN line.doc.o["config"] ELSE Null

\* C10: only init messages change the configuration; an init whose config is
\* a dict sets the keys of that dict and keeps every other key with its value;
\* an init without a config, or with an empty one, changes nothing.
C10_ConfigOnlyMergedByInit ==
  [][ /\ ~(Took /\ HasType(Cur, "init")) => config' = config
      /\ (Took /\ HasType(Cur, "init")) =>
           /\ ~Truthy(ConfigOf(Cur)) => config' = config
           /\ IsDict(ConfigOf(Cur)) =>
                /\ DOMAIN config' = DOMAIN config \cup DOMAIN ConfigOf(Cur).o
                /\ \A k \in DOMAIN ConfigOf(Cur).o : config'[k] = ConfigOf(Cur).o[k]
                /\ \A k \in DOMAIN config \ DOMAIN ConfigOf(Cur).o :
                     config'[k] = config[k] ]_vars

\* An init set the prefix, a second init set another key: the prefix of the
\* first is still there.
C10_Witness ==
  /\ Len(lines) = 2
  /\ HasType(lines[1], "init") /\ HasType(lines[2], "init")
  /\ ConfigOf(lines[1]) = Obj("prefix" :> Str("TREQ_"))
  /\ ConfigOf(lines[2]) = Obj("region" :> Str("eu"))
  /\ DOMAIN config = {"prefix", "region"}
  /\ config["prefix"] = Str("TREQ_")
  /\ config["region"] = Str("eu")

(* ------------------------------------------------------------------ *)
(* C11                                                                  *)
(* ------------------------------------------------------------------ *)

\* C11: the plugin answers in the order it reads: a step only appends to
\* stdout, at most one line, and a line it appends carries the id of the
\* message read in that same step, so every answer is written before the
\* next line is read.
C11_AnswersInReadOrder ==
  [][ /\ Kept
      /\ Len(Written) <= 1
      /\ Len(Written) = 1 =>
           /\ Took
           /\ Cur.kind = "json" /\ IsDict(Cur.doc)
           /\ Written[1].doc.o["id"] =
                (IF HasId(Cur) THEN Cur.doc.o["id"] ELSE Str("")) ]_vars

\* A hook then a resolver were read; stdout holds their ids in that order.
C11_Witness ==
  /\ Len(lines) = 2 /\ Len(stdout) = 2
  /\ HasType(lines[1], "hook") /\ HasId(lines[1])
  /\ HasType(lines[2], "resolver") /\ HasId(lines[2])
  /\ <<stdout[1].doc.o["id"], stdout[2].doc.o["id"]>>
       = <<lines[1].doc.o["id"], lines[2].doc.o["id"]>>

(* ------------------------------------------------------------------ *)
(* C12                                                                  *)
(* ------------------------------------------------------------------ *)

\* C12: every line on stdout is a protocol message of type response or error
\* that has an id field; what log_debug writes is never among them.
C12_StdoutOnlyMessages ==
  \A i \in 1 .. Len(stdout) :
    IsMessageOfType(stdout[i], "response") \/ IsMessageOfType(stdout[i], "error")

\* Handlers have logged to stderr, both after returning and after raising,
\* and stdout holds one response and one error.
C12_Witness ==
  /\ Len(stdout) = 2
  /\ IsMessageOfType(stdout[1], "response")
  /\ IsMessageOfType(stdout[2], "error")
  /\ Len(stderr) = 4
  /\ pc = "exited"

(* ------------------------------------------------------------------ *)
(* C13                                                                  *)
(* ------------------------------------------------------------------ *)

\* The line is a resolver request; NameOf is its name, ArgsOf its args, with
\* the defaults of a request that leaves them out.
IsResolver(line) == HasType(line, "resolver")
NameOf(line) == IF "name" \in DOMAIN line.doc.o THEN line.doc.o["name"] ELSE Str("")
ArgsOf(line) == IF "args" \in DOMAIN line.doc.o THEN line.doc.o["args"] ELSE EmptyList

\* The value C13 gives $env: "" without arguments, else the environment
\* variable named prefix + first argument, "" when it is unset.
EnvValue(args, cfg) ==
  IF args.t # "arr" \/ args.a = <<>> THEN ""
  ELSE LET full == cfg["prefix"].s \o PyStr(args.a[1])
       IN IF full \in DOMAIN Environ THEN Environ[full] ELSE ""

\* C13: every resolver request for $env is answered by a message of type
\* response, never an error, whose value is "" without arguments and else the
\* environment variable named by the configured prefix followed by the first
\* argument, or "" when that variable is unset.
C13_EnvAlwaysResolves ==
  [][ (Took /\ IsResolver(Cur) /\ NameOf(Cur) = Str("$env")) =>
        /\ Len(Written) = 1
        /\ IsMessageOfType(Written[1], "response")
        /\ Written[1].doc.o["result"] = Obj("value" :> Str(EnvValue(ArgsOf(Cur), config)))
    ]_vars

(* ------------------------------------------------------------------ *)
(* C14                                                                  *)
(* ------------------------------------------------------------------ *)

\* The names handle_resolver resolves.
KnownResolvers == {Str("$env"), Str("$timestamp"), Str("$uuid"), Str("$randomInt")}

\* C14: a resolver request with any other name is answered by a message of
\* type response with the request's id and the value "", and the plugin keeps
\* running with its configuration unchanged.
C14_UnknownResolverIsEmpty ==
  [][ (Took /\ IsResolver(Cur) /\ NameOf(Cur) \notin KnownResolvers) =>
        /\ Len(Written) = 1
        /\ IsMessageOfType(Written[1], "response")
        /\ AnswersTo(Written[1], Cur)
        /\ Written[1].doc.o["result"] = Obj("value" :> Str(""))
        /\ pc' = "running"
        /\ config' = config ]_vars

\* $other was answered by the empty value, and the $env request read after it
\* by a value that is not empty.
C14_Witness ==
  /\ Len(lines) = 2 /\ Len(stdout) = 2
  /\ IsResolver(lines[1]) /\ NameOf(lines[1]) = Str("$other")
  /\ stdout[1].doc.o["result"] = Obj("value" :> Str(""))
  /\ IsResolver(lines[2]) /\ NameOf(lines[2]) = Str("$env")
  /\ IsMessageOfType(stdout[2], "response")
  /\ stdout[2].doc.o["result"] # Obj("value" :> Str(""))

(* ------------------------------------------------------------------ *)
(* C15                                                                  *)
(* ------------------------------------------------------------------ *)

\* The line is a $timestamp request whose first argument is the format fmt.
IsTimestamp(line, fmt) ==
  /\ IsResolver(line) /\ NameOf(line) = Str("$timestamp")
  /\ ArgsOf(line).t = "arr" /\ ArgsOf(line).a # <<>>
  /\ ArgsOf(line).a[1] = Str(fmt)

\* The stdout line is the response {"value": s}.
HasValue(out, s) ==
  IsMessageOfType(out, "response") /\ out.doc.o["result"] = Obj("value" :> Str(s))

\* C15: with the clock a non-decreasing number of milliseconds,
\* $timestamp("unix_ms") returns the decimal string of the clock's reading and
\* $timestamp("unix") that of the reading integer-divided by 1000; of two
\* unix_ms calls in a row with the clock advanced in between, the second
\* returns the larger number; a unix call at the instant of the unix_ms call
\* before it returns that call's number integer-divided by 1000.
C15_TimestampFollowsClock ==
  [][ /\ (Took /\ IsTimestamp(Cur, "unix_ms")) =>
            /\ clock' >= clock
            /\ Len(Written) = 1 /\ HasValue(Written[1], ToString(clock'))
      /\ (Took /\ IsTimestamp(Cur, "unix")) =>
            /\ clock' >= clock
            /\ Len(Written) = 1 /\ HasValue(Written[1], ToString(clock' \div 1000))
      /\ (/\ Took /\ lines # <<>> /\ stdout # <<>>
          /\ IsTimestamp(lines[Len(lines)], "unix_ms")
          /\ IsTimestamp(Cur, "unix_ms") /\ clock' > clock)
            => /\ Len(Written) = 1
               /\ \E a, b \in ClockReadings(StartMs) :
                    /\ a < b
                    /\ HasValue(stdout[Len(stdout)], ToString(a))
                    /\ HasValue(Written[1], ToString(b))
      /\ (/\ Took /\ lines # <<>> /\ stdout # <<>>
          /\ IsTimestamp(lines[Len(lines)], "unix_ms")
          /\ IsTimestamp(Cur, "unix") /\ clock' = clock)
            => /\ Len(Written) = 1
               /\ \E a \in ClockReadings(StartMs) :
                    /\ HasValue(stdout[Len(stdout)], ToString(a))
                    /\ HasValue(Written[1], ToString(a \div 1000)) ]_vars

\* Two unix_ms calls, the clock one millisecond further at the second: the
\* values are the two readings, the second in a later second than the first.
C15_Witness ==
  /\ Len(lines) = 2 /\ Len(stdout) = 2
  /\ IsTimestamp(lines[1], "unix_ms") /\ IsTimestamp(lines[2], "unix_ms")
  /\ HasValue(stdout[1], ToString(clock - 1))
  /\ HasValue(stdout[2], ToString(clock))
  /\ (clock - 1) \div 1000 < clock \div 1000

(* ------------------------------------------------------------------ *)
(* C16                                                                  *)
(* ------------------------------------------------------------------ *)

\* The line is a hook request; OutputOf is its output, {} when it has none.
IsHook(line) == HasType(line, "hook")
OutputOf(line) ==
  IF "output" \in DOMAIN line.doc.o THEN line.doc.o["output"] ELSE EmptyDict

\* C16: a hook request whose name is not request.before is answered by a
\* response whose output is the request's output exactly ({} when the request
\* has none), and the configuration is unchanged.
C16_OtherHooksAreNoOps ==
  [][ (Took /\ IsHook(Cur) /\ NameOf(Cur) # Str("request.before")) =>
        /\ Len(Written) = 1
        /\ IsMessageOfType(Written[1], "response")
        /\ AnswersTo(Written[1], Cur)
        /\ Written[1].doc.o["result"] = Obj("output" :> OutputOf(Cur))
        /\ config' = config ]_vars

\* With the prefix configured, a request.after hook whose output holds a
\* request with headers was answered by that output, no header added.
C16_Witness ==
  /\ Len(lines) = 2 /\ Len(stdout) = 2
  /\ HasType(lines[1], "init") /\ config["prefix"] = Str("TREQ_")
  /\ IsHook(lines[2]) /\ NameOf(lines[2]) = Str("request.after")
  /\ OutputOf(lines[2]) = RequestWith(Obj("Accept" :> Str("*/*")))
  /\ stdout[2].doc.o["result"] = Obj("output" :> OutputOf(lines[2]))

(* ------------------------------------------------------------------ *)
(* C17                                                                  *)
(* ------------------------------------------------------------------ *)

\* The line is a request.before hook request.
IsBeforeHook(line) == IsHook(line) /\ NameOf(line) = Str("request.before")

\* The output inside a response to a hook request.
HookOutput(out) == out.doc.o["result"].o["output"]

\* C17: request.before is idempotent: a request.before call whose output is
\* the output the request.before call before it returned is answered by that
\* same output.  A request.before call that is answered by a response keeps an
\* X-Correlation-ID header the request already has, and changes nothing in
\* output but the headers of its request: the other keys of output and of
\* output.request keep their values.
C17_BeforeHookIdempotent ==
  [][ /\ (/\ Took /\ IsBeforeHook(Cur)
          /\ lines # <<>> /\ IsBeforeHook(lines[Len(lines)])
          /\ stdout # <<>> /\ IsMessageOfType(stdout[Len(stdout)], "response")
          /\ OutputOf(Cur) = HookOutput(stdout[Len(stdout)]))
            => /\ Len(Written) = 1
               /\ IsMessageOfType(Written[1], "response")
               /\ HookOutput(Written[1]) = OutputOf(Cur)
      /\ (/\ Took /\ IsBeforeHook(Cur)
          /\ Len(Written) = 1 /\ IsMessageOfType(Written[1], "response"))
            => LET in == OutputOf(Cur)
                   out == HookOutput(Written[1])
                   rin == DictGet(in, "request", EmptyDict)
                   rout == out.o["request"]
                   hin == DictGet(rin, "headers", EmptyDict)
               IN /\ DOMAIN out.o = DOMAIN in.o \cup {"request"}
                  /\ \A k \in DOMAIN in.o \ {"request"} : out.o[k] = in.o[k]
                  /\ DOMAIN rout.o = DOMAIN rin.o \cup {"headers"}
                  /\ \A k \in DOMAIN rin.o \ {"headers"} : rout.o[k] = rin.o[k]
                  /\ "X-Correlation-ID" \in DOMAIN hin.o =>
                       rout.o["headers"].o["X-Correlation-ID"]
                         = hin.o["X-Correlation-ID"] ]_vars

\* A request.before call on a request without headers got a generated
\* X-Correlation-ID; its output was fed to a second call, which returned it
\* as it was.
C17_Witness ==
  /\ Len(lines) = 2 /\ Len(stdout) = 2
  /\ IsBeforeHook(lines[1]) /\ IsBeforeHook(lines[2])
  /\ OutputOf(lines[1]) = RequestWith(EmptyDict)
  /\ IsMessageOfType(stdout[1], "response")
  /\ OutputOf(lines[2]) = HookOutput(stdout[1])
  /\ IsMessageOfType(stdout[2], "response")
  /\ HookOutput(stdout[2]) = HookOutput(stdout[1])
  /\ "X-Correlation-ID" \in DOMAIN HeadersOut(stdout[2])

(* ------------------------------------------------------------------ *)
(* C18                                                                  *)
(* ------------------------------------------------------------------ *)

\* The argument is an integer: a JSON integer or the decimal text of one.
IsIntegerArg(v) ==
  v.t = "num" \/ (v.t = "str" /\ \E n \in IntLiterals : ToString(n) = v.s)
IntOf(v) ==
  IF v.t = "num" THEN v.n ELSE CHOOSE n \in IntLiterals : ToString(n) = v.s

\* The integers of lo .. hi among which the model draws random.randint(lo, hi).
Near(lo, hi) ==
  {v \in (lo .. (lo + MaxRandSpan + 1)) \cup ((hi - MaxRandSpan - 1) .. hi) :
     lo <= v /\ v <= hi}

\* C18: a $randomInt request whose arguments are integers min <= max (0 and
\* 1000000 when left out) is answered by a value v with min <= v <= max; with
\* min > max, or an argument that is not an integer, it is answered by an
\* error with the request's id, and the loop keeps running.
C18_RandomIntInRangeOrError ==
  [][ (Took /\ IsResolver(Cur) /\ NameOf(Cur) = Str("$randomInt")) =>
        LET args == ArgsOf(Cur)
            given == IF args.t = "arr" THEN args.a ELSE <<>>
            integers == /\ args.t = "arr"
                        /\ \A i \in 1 .. Len(given) : i <= 2 => IsIntegerArg(given[i])
            lo == IF Len(given) >= 1 THEN IntOf(given[1]) ELSE 0
            hi == IF Len(given) >= 2 THEN IntOf(given[2]) ELSE DefaultRandomMax
        IN /\ Len(Written) = 1
           /\ IF integers /\ lo <= hi
                THEN \E v \in Near(lo, hi) : HasValue(Written[1], ToString(v))
                ELSE /\ IsMessageOfType(Written[1], "error")
                     /\ AnswersTo(Written[1], Cur)
                     /\ pc' = "running" ]_vars

(* ------------------------------------------------------------------ *)
(* C19                                                                  *)
(* ------------------------------------------------------------------ *)

\* No line of seq is an init message.
NoInitIn(seq) == \A i \in 1 .. Len(seq) : ~HasType(seq[i], "init")

\* C19: a resolver or hook request read when no init has been read is served
\* with the default configuration, the empty prefix: it gets its one answer,
\* an error only when its handler raises, and $env(X) for a text X is answered
\* by the value of the variable X itself, "" when X is unset.
C19_ServedBeforeInit ==
  [][ (Took /\ NoInitIn(lines') /\ (IsResolver(Cur) \/ IsHook(Cur))) =>
        /\ DOMAIN config = {"prefix"} /\ config["prefix"] = Str("")
        /\ Len(Written) = 1
        /\ AnswersTo(Written[1], Cur)
        /\ IsMessageOfType(Written[1], "error") =>
             \E e \in HandlerErrors(Cur) :
               Written[1].doc.o["error"] = Obj("message" :> Str(e))
        /\ (/\ IsResolver(Cur) /\ NameOf(Cur) = Str("$env")
            /\ ArgsOf(Cur).t = "arr" /\ ArgsOf(Cur).a # <<>>
            /\ IsStr(ArgsOf(Cur).a[1]))
             => LET X == ArgsOf(Cur).a[1].s
                IN HasValue(Written[1],
                            IF X \in DOMAIN Environ THEN Environ[X] ELSE "") ]_vars

\* Without any init, $env(API_KEY) was answered by the value of API_KEY, not
\* of TREQ_API_KEY, and the hook read after it by a response.
C19_Witness ==
  /\ Len(lines) = 2 /\ Len(stdout) = 2 /\ NoInitIn(lines)
  /\ IsResolver(lines[1]) /\ NameOf(lines[1]) = Str("$env")
  /\ ArgsOf(lines[1]) = Arr(<<Str("API_KEY")>>)
  /\ HasValue(stdout[1], Environ["API_KEY"])
  /\ Environ["API_KEY"] # Environ["TREQ_API_KEY"]
  /\ IsBeforeHook(lines[2]) /\ IsMessageOfType(stdout[2], "response")

(* ------------------------------------------------------------------ *)
(* C20                                                                  *)
(* ------------------------------------------------------------------ *)

\* C20: the read loop ends in two ways only, on a shutdown message or at the
\* end of input, after which main returns: it never ends by an exception;
\* once a shutdown message is read it has ended and that message is the last
\* line read; and every request read has been answered.
C20_EndsOnShutdownOrEndOfInput ==
  /\ pc \in {"running", "exited"}
  /\ ShutdownRead => (pc = "exited" /\ HasType(lines[Len(lines)], "shutdown"))
  /\ \A i \in 1 .. Len(lines) :
       IsRequestLine(lines[i]) =>
         \E j \in 1 .. Len(stdout) : AnswersTo(stdout[j], lines[i])

====
